---------------------------- MODULE Spec2Model ----------------------------
(***************************************************************************)
(* The Convex todo popup: the App component of src/src/App.tsx (one        *)
(* instance per client) and the four data-access functions of              *)
(* convex/todos.ts as listed in src/blog/guide.md (list, add, toggle,      *)
(* remove), which the platform runs against the shared "todos" table.      *)
(*                                                                         *)
(* A mutation call is issued by the popup and waits until the platform     *)
(* picks it up; calls are picked up in any order, interleaved with the     *)
(* calls of the deployment's other clients.  Each awaited table operation  *)
(* of a handler is a step of its own, and the code arranges nothing that   *)
(* keeps another handler from running between two of them.  The            *)
(* subscription is two steps: the platform computes list() and sends the   *)
(* result, and the result reaches the popup later, in the order sent.      *)
(***************************************************************************)
EXTENDS Integers, Sequences, FiniteSets, Bags, TLC

\* ------------------------------------------------------------------ bounds

\* Number of documents the table ever receives (ids are never reused).
MaxTodos == 2

\* The same, where only the list and its order are followed.
MaxListed == 3

\* Number of mutation calls a popup has waiting at the same time.
MaxInFlight == 1

\* Number of list results on their way to a popup at the same time.
MaxInTransit == 1

\* Length of the text a user types into the input field.
MaxInputLen == 2

\* Number of toggle handlers between their read and their write at the
\* same time.
MaxRunning == 2

\* The popups modelled in full: each runs the App component.
Clients == {"c1"}

\* Every other client of the deployment (other popups, dashboards, web
\* apps): it issues the same mutation calls, from a view of the table that
\* may be arbitrarily stale.
Other == "other"

\* The characters a user types: one letter and one white-space character.
Chars == {"a", " "}

\* What String.prototype.trim strips (of the characters typed).
Whitespace == {" "}

\* ------------------------------------------------------------------ state

VARIABLES
    db,         \* the "todos" table: a set of documents
    nextId,     \* the next _id / _creationTime the platform assigns
    running,    \* the toggle handlers between their get and their patch
                \* (a bag)
    inbox,      \* inbox[c]: the list results sent to c and not yet arrived
    input,      \* input[c]: the text field's buffer (useState(""))
    todos,      \* todos[c]: the result of useQuery(api.todos.list)
    calls,      \* the popup's mutation calls not yet picked up (a bag)
    last,       \* history: the last step, when it was a submit ignored, a
                \* toggle that threw or a toggle that patched its record
    toggled,    \* history: toggled[id], toggles that have patched id (mod 2)
    raced,      \* history: the ids a toggle has read while another toggle
                \* of the same id was between its read and its write
    removed,    \* history: the ids a remove has been executed on
    delivered,  \* history: delivered[c], a snapshot has reached c
    asked       \* history: asked[c], the records c has invoked remove on
                \* since the last snapshot reached it

vars == <<db, nextId, running, inbox, input, todos, calls, last, toggled, raced, removed, delivered, asked>>

\* ------------------------------------------------------------------ text

RECURSIVE TrimStart(_)
TrimStart(s) ==
    IF s = <<>> THEN s
    ELSE IF Head(s) \in Whitespace THEN TrimStart(Tail(s)) ELSE s

RECURSIVE TrimEnd(_)
TrimEnd(s) ==
    IF s = <<>> THEN s
    ELSE IF s[Len(s)] \in Whitespace THEN TrimEnd(SubSeq(s, 1, Len(s) - 1)) ELSE s

\* A trim that strips the leading white space only.
TrimLeadingOnly(s) == TrimStart(s)

\* input.trim()
Trim(s) == TrimEnd(TrimStart(s))

RECURSIVE SeqsUpTo(_)
SeqsUpTo(n) ==
    IF n = 0 THEN {<<>>}
    ELSE LET shorter == SeqsUpTo(n - 1)
         IN  shorter \cup {Append(s, ch) : s \in shorter, ch \in Chars}

\* The values e.target.value takes.
TypedValues == SeqsUpTo(MaxInputLen)

\* ------------------------------------------------------------------ table

Ids(d) == {t.id : t \in d}

\* ctx.db.get(id): the document, or null
Null == [id |-> 0, creationTime |-> 0, text |-> <<>>, isCompleted |-> FALSE]

DbGet(d, id) == IF id \in Ids(d) THEN CHOOSE t \in d : t.id = id ELSE Null

\* ctx.db.insert("todos", {text, isCompleted: false}); the platform adds
\* _id and _creationTime.
NewTodo(n, text) ==
    [id |-> n, creationTime |-> n, text |-> text, isCompleted |-> FALSE]

DbInsert(d, n, text) == d \cup {NewTodo(n, text)}

\* ctx.db.patch(id, {isCompleted: value})
DbPatch(d, id, value) ==
    {IF t.id = id THEN [t EXCEPT !.isCompleted = value] ELSE t : t \in d}

\* ctx.db.delete(id)
DbDelete(d, id) == {t \in d : t.id # id}

RECURSIVE OrderDesc(_)
OrderDesc(S) ==
    IF S = {} THEN <<>>
    ELSE LET newest == CHOOSE t \in S : \A u \in S : u.creationTime <= t.creationTime
         IN  <<newest>> \o OrderDesc(S \ {newest})

RECURSIVE OrderAsc(_)
OrderAsc(S) ==
    IF S = {} THEN <<>>
    ELSE LET oldest == CHOOSE t \in S : \A u \in S : u.creationTime >= t.creationTime
         IN  <<oldest>> \o OrderAsc(S \ {oldest})

\* A list that leaves out .order("desc").
ListAscending(d) == OrderAsc(d)

\* list: ctx.db.query("todos").order("desc").collect()
List(d) == OrderDesc(d)

NoError == "none"
NotFound == "Todo not found"

\* A toggle that goes on when the todo is missing.
ToggleNeverThrows(todo) == FALSE

\* toggle: if (!todo) throw new Error("Todo not found")
ToggleThrows(todo) == todo = Null

\* A toggle that marks the todo completed instead of flipping it.
ToggledFlagTrue(todo) == TRUE

\* toggle: the value patched, !todo.isCompleted
ToggledFlag(todo) == ~todo.isCompleted

\* A remove that deletes nothing.
RemoveKeeps(d, id) == d

\* remove's handler: the delete, with no existence check before it.
RemoveHandler(d, id) == DbDelete(d, id)

\* --------------------------------------------------------------- component

\* useQuery's result before the first delivery.
Undefined == [defined |-> FALSE, value |-> <<>>]

Loaded(list) == [defined |-> TRUE, value |-> list]

\* A counter that leaves out the filter.
RemainingCountsAll(c) == IF ~todos[c].defined THEN 0 ELSE Len(todos[c].value)

\* const remaining = todos?.filter((t) => !t.isCompleted).length ?? 0
Remaining(c) ==
    IF ~todos[c].defined THEN 0
    ELSE Len(SelectSeq(todos[c].value, LAMBDA t : ~t.isCompleted))

\* A view that tests the length before it tests for undefined.
ViewLengthFirst(c) ==
    IF Len(todos[c].value) = 0 THEN "Empty"
    ELSE IF ~todos[c].defined THEN "Loading"
    ELSE "Populated"

\* The list view's three branches.
View(c) ==
    IF ~todos[c].defined THEN "Loading"
    ELSE IF Len(todos[c].value) = 0 THEN "Empty"
    ELSE "Populated"

\* {todos && todos.length > 0 && (...)}
FooterShown(c) == todos[c].defined /\ Len(todos[c].value) > 0

\* todos.map((todo) => <li key=...>): one row per element, in order.
Rendered(c) ==
    [i \in DOMAIN todos[c].value |->
        [key     |-> todos[c].value[i].id,
         checked |-> todos[c].value[i].isCompleted,
         text    |-> todos[c].value[i].text]]

\* ------------------------------------------------------------------ calls

AddCall(c, text)  == [client |-> c, op |-> "add",    text |-> text, id |-> 0]
ToggleCall(c, id) == [client |-> c, op |-> "toggle", text |-> <<>>, id |-> id]
RemoveCall(c, id) == [client |-> c, op |-> "remove", text |-> <<>>, id |-> id]

InFlight == BagToSet(calls)

Issue(call) == calls (+) SetToBag({call})

Settle(call) == calls (-) SetToBag({call})

PendingAdds ==
    LET adds == {k \in InFlight : k.op = "add"}
    IN  IF adds = {} THEN 0 ELSE BagCardinality([k \in adds |-> calls[k]])

\* The model's caps: calls waiting, and documents ever inserted.
RoomToCall == BagCardinality(calls) < MaxInFlight
RoomToAddUpTo(cap) == nextId + PendingAdds <= cap
RoomToAdd == RoomToAddUpTo(MaxTodos)

\* The ids the table can assign under either cap.
IdSpace == 1..(IF MaxListed > MaxTodos THEN MaxListed ELSE MaxTodos)

\* A toggle handler that has read its todo and not yet patched it.
Handler(call, todo) == [call |-> call, todo |-> todo]

Running == BagToSet(running)

\* The model's cap on the handlers between their awaits.
RoomToRun == BagCardinality(running) < MaxRunning

\* A handler of the same record is between its read and its write.
Overlaps(id) == \E h \in Running : h.call.id = id

\* A list result on its way to a client; asOf is history: the ids a remove
\* had been executed on when the result was computed.
Result(list, asOf) == [value |-> list, asOf |-> asOf]

\* The result the platform last sent to c, or the one c holds.
Latest(c) ==
    IF inbox[c] # <<>> THEN Loaded(inbox[c][Len(inbox[c])].value) ELSE todos[c]

\* History bookkeeping.
Step(op, c, id, error) == [op |-> op, client |-> c, id |-> id, error |-> error]
NoStep == Step("none", Other, 0, "none")
Bump(f, id) == [f EXCEPT ![id] = (f[id] + 1) % 2]

\* ------------------------------------------------------------------ actions

Init ==
    /\ db = {}
    /\ nextId = 1
    /\ running = EmptyBag
    /\ inbox = [c \in Clients |-> <<>>]
    /\ input = [c \in Clients |-> <<>>]
    /\ todos = [c \in Clients |-> Undefined]
    /\ calls = EmptyBag
    /\ last = NoStep
    /\ toggled = [n \in IdSpace |-> 0]
    /\ raced = {}
    /\ removed = {}
    /\ delivered = [c \in Clients |-> FALSE]
    /\ asked = [c \in Clients |-> {}]

\* onChange={(e) => setInput(e.target.value)}, e.target.value drawn from V.
SetInput(c, V) ==
    \E v \in V :
        /\ v # input[c]
        /\ input' = [input EXCEPT ![c] = v]
        /\ last' = NoStep
        /\ UNCHANGED <<db, nextId, running, inbox, todos, calls, toggled, raced, removed, delivered, asked>>

OnChange(c) == SetInput(c, TypedValues)

\* A handleSubmit without the early return.
SubmitUnguarded(c) ==
    /\ Trim(input[c]) = <<>>
    /\ RoomToCall /\ RoomToAdd
    /\ calls' = Issue(AddCall(c, Trim(input[c])))
    /\ input' = [input EXCEPT ![c] = <<>>]
    /\ last' = Step("submit-ignored", c, 0, NoError)
    /\ UNCHANGED <<db, nextId, running, inbox, todos, toggled, raced, removed, delivered, asked>>

\* handleSubmit, the early return.
SubmitBlank(c) ==
    /\ Trim(input[c]) = <<>>
    /\ last' = Step("submit-ignored", c, 0, NoError)
    /\ UNCHANGED <<db, nextId, running, inbox, input, todos, calls, toggled, raced, removed, delivered, asked>>

\* handleSubmit past the early return: addTodo({text}); setInput("").
SubmitText(c) ==
    /\ Trim(input[c]) # <<>>
    /\ RoomToCall /\ RoomToAdd
    /\ calls' = Issue(AddCall(c, Trim(input[c])))
    /\ input' = [input EXCEPT ![c] = <<>>]
    /\ last' = NoStep
    /\ UNCHANGED <<db, nextId, running, inbox, todos, toggled, raced, removed, delivered, asked>>

HandleSubmit(c) == SubmitBlank(c) \/ SubmitText(c)

\* The checkbox of row i: onChange={() => toggleTodo({id: todo._id})}
ClickToggle(c) ==
    \E i \in DOMAIN Rendered(c) :
        /\ RoomToCall
        /\ calls' = Issue(ToggleCall(c, Rendered(c)[i].key))
        /\ last' = NoStep
        /\ UNCHANGED <<db, nextId, running, inbox, input, todos, toggled, raced, removed, delivered, asked>>

\* The delete button of row i: onClick={() => removeTodo({id: todo._id})}
ClickRemove(c) ==
    \E i \in DOMAIN Rendered(c) :
        /\ RoomToCall
        /\ calls' = Issue(RemoveCall(c, Rendered(c)[i].key))
        /\ asked' = [asked EXCEPT ![c] = @ \cup ({Rendered(c)[i].key} \cap Ids(db))]
        /\ last' = NoStep
        /\ UNCHANGED <<db, nextId, running, inbox, input, todos, toggled, raced, removed, delivered>>

\* The subscription, platform side: list() is computed on the table as it
\* is now and sent to the client, when it differs from the result last sent.
Push(c) ==
    /\ Len(inbox[c]) < MaxInTransit
    /\ Latest(c) # Loaded(List(db))
    /\ inbox' = [inbox EXCEPT ![c] = Append(@, Result(List(db), removed))]
    /\ last' = NoStep
    /\ UNCHANGED <<db, nextId, running, input, todos, calls, toggled, raced, removed, delivered, asked>>

\* The subscription, client side: the oldest result on its way arrives and
\* becomes the value of useQuery.
Deliver(c) ==
    /\ inbox[c] # <<>>
    /\ todos' = [todos EXCEPT ![c] = Loaded(Head(inbox[c]).value)]
    /\ inbox' = [inbox EXCEPT ![c] = Tail(@)]
    /\ delivered' = [delivered EXCEPT ![c] = TRUE]
    /\ asked' = [asked EXCEPT ![c] = {}]
    /\ last' = NoStep
    /\ UNCHANGED <<db, nextId, running, input, calls, toggled, raced, removed>>

\* add's handler, run by the platform for a call.
RunAdd(call) ==
    /\ db' = DbInsert(db, nextId, call.text)
    /\ nextId' = nextId + 1
    /\ last' = NoStep
    /\ UNCHANGED <<running, inbox, input, todos, toggled, raced, removed, delivered, asked>>

\* toggle's handler up to its first write, run by the platform for a call:
\* const todo = await ctx.db.get(args.id); if (!todo) throw ...
\* The throw ends the handler; the caller's call is then rejected.  Other
\* handlers may be between their awaits meanwhile.
StartToggle(call) ==
    /\ LET todo == DbGet(db, call.id)
       IN  IF ToggleThrows(todo)
           THEN /\ UNCHANGED <<running, raced>>
                /\ last' = Step("toggle", call.client, call.id, NotFound)
           ELSE /\ RoomToRun
                /\ running' = running (+) SetToBag({Handler(call, todo)})
                /\ raced' = IF Overlaps(call.id) THEN raced \cup {call.id} ELSE raced
                /\ last' = NoStep
    /\ UNCHANGED <<db, nextId, inbox, input, todos, toggled, removed, delivered, asked>>

\* toggle's handler h, its write:
\* await ctx.db.patch(args.id, { isCompleted: !todo.isCompleted })
\* The value written is the negation of the flag the handler read.  When the
\* document has been deleted since the read, the table is left as it is; how
\* the call then ends for its caller is up to the platform's patch, and no
\* outcome is recorded.
FinishToggle(h) ==
    /\ h \in Running
    /\ db' = DbPatch(db, h.call.id, ToggledFlag(h.todo))
    /\ toggled' = IF h.call.id \in Ids(db) THEN Bump(toggled, h.call.id) ELSE toggled
    /\ running' = running (-) SetToBag({h})
    /\ last' = IF h.call.id \in Ids(db)
               THEN Step("toggle", h.call.client, h.call.id, NoError)
               ELSE NoStep
    /\ UNCHANGED <<nextId, inbox, input, todos, calls, raced, removed, delivered, asked>>

\* remove's handler, run by the platform for a call.  How the call ends for
\* its caller when the id matches no document is up to the platform's
\* delete; the handler neither checks nor catches, and no outcome is
\* recorded.
RunRemove(call) ==
    /\ db' = RemoveHandler(db, call.id)
    /\ removed' = removed \cup {call.id}
    /\ toggled' = [toggled EXCEPT ![call.id] = 0]
    /\ last' = NoStep
    /\ UNCHANGED <<nextId, running, inbox, input, todos, raced, delivered, asked>>

\* The platform picks up a call of the popup.
ExecAdd(call) ==
    /\ call.op = "add"
    /\ RunAdd(call)
    /\ calls' = Settle(call)

ExecToggle(call) ==
    /\ call.op = "toggle"
    /\ StartToggle(call)
    /\ calls' = Settle(call)

ExecRemove(call) ==
    /\ call.op = "remove"
    /\ RunRemove(call)
    /\ calls' = Settle(call)

\* The platform picks up a call of another client, on any id that client may
\* still show (any id ever assigned).  The add handler takes any string: the
\* text is stored as given, blank or untrimmed included, since only the
\* popup's form trims and guards.
OtherAddUpTo(V, cap) ==
    \E v \in V :
        /\ RoomToAddUpTo(cap)
        /\ RunAdd(AddCall(Other, v))
        /\ UNCHANGED calls

OtherAdd(V) == OtherAddUpTo(V, MaxTodos)

OtherToggle ==
    \E id \in 1..(nextId - 1) :
        /\ StartToggle(ToggleCall(Other, id))
        /\ UNCHANGED calls

OtherRemove ==
    \E id \in 1..(nextId - 1) :
        /\ RunRemove(RemoveCall(Other, id))
        /\ UNCHANGED calls

\* What the user of the popup types here.
SampleValues == {<<" ", "a">>}

\* The text other clients pass to add here: one the popup's form would
\* neither send nor leave untrimmed.
OtherTexts == {<<" ">>}

Next ==
    \/ \E c \in Clients : SetInput(c, SampleValues \cup {<<>>})
    \/ \E c \in Clients : SubmitBlank(c)
    \/ \E c \in Clients : SubmitText(c)
    \/ \E c \in Clients : ClickToggle(c)
    \/ \E c \in Clients : ClickRemove(c)
    \/ \E c \in Clients : Push(c)
    \/ \E c \in Clients : Deliver(c)
    \/ OtherAdd(OtherTexts)
    \/ OtherToggle
    \/ OtherRemove
    \/ \E h \in Running : FinishToggle(h)
    \/ \E call \in InFlight : ExecAdd(call)
    \/ \E call \in InFlight : ExecToggle(call)
    \/ \E call \in InFlight : ExecRemove(call)

Spec == Init /\ [][Next]_vars

\* The form alone, every text of up to MaxInputLen characters typed.
NextForm ==
    \/ \E c \in Clients : OnChange(c)
    \/ \E c \in Clients : SubmitBlank(c)
    \/ \E c \in Clients : SubmitText(c)
    \/ \E call \in InFlight : ExecAdd(call)

SpecForm == Init /\ [][NextForm]_vars

\* The list alone: the popup's subscription and its delete buttons, while
\* the other clients add and remove up to MaxListed records.
NextList ==
    \/ OtherAddUpTo(OtherTexts, MaxListed)
    \/ OtherRemove
    \/ \E c \in Clients : ClickRemove(c)
    \/ \E call \in InFlight : ExecRemove(call)
    \/ \E c \in Clients : Push(c)
    \/ \E c \in Clients : Deliver(c)

SpecList == Init /\ [][NextList]_vars

\* The checkboxes alone: the popup's subscription and its toggle calls,
\* while the other clients add, toggle and remove records.
NextToggle ==
    \/ OtherAdd(OtherTexts)
    \/ OtherToggle
    \/ OtherRemove
    \/ \E c \in Clients : ClickToggle(c)
    \/ \E call \in InFlight : ExecToggle(call)
    \/ \E h \in Running : FinishToggle(h)
    \/ \E c \in Clients : Push(c)
    \/ \E c \in Clients : Deliver(c)

SpecToggle == Init /\ [][NextToggle]_vars

\* The handlers alone, run for the calls of the other clients: toggles
\* overlapping each other and the adds and removes.
NextHandlers ==
    \/ OtherAdd(OtherTexts)
    \/ OtherToggle
    \/ OtherRemove
    \/ \E h \in Running : FinishToggle(h)

SpecHandlers == Init /\ [][NextHandlers]_vars

\* ------------------------------------------------------------------ claims

\* Vocabulary of the properties, stated without the component's operators.
IsBlank(s) == \A i \in DOMAIN s : s[i] \in Whitespace

Substrings(s) == {SubSeq(s, i, j) : i \in 1..(Len(s) + 1), j \in 0..Len(s)}

\* t is s without its leading and trailing white space.
IsTrimOf(t, s) ==
    \E i \in 0..Len(s), j \in 0..Len(s) :
        /\ i + j <= Len(s)
        /\ t = SubSeq(s, i + 1, Len(s) - j)
        /\ IsBlank(SubSeq(s, 1, i))
        /\ IsBlank(SubSeq(s, Len(s) - j + 1, Len(s)))
        /\ t # <<>> => (t[1] \notin Whitespace /\ t[Len(t)] \notin Whitespace)

SnapshotIds(snapshot) == {snapshot.value[i].id : i \in DOMAIN snapshot.value}

Position(snapshot, id) == CHOOSE i \in DOMAIN snapshot.value : snapshot.value[i].id = id

\* The records two snapshots share are in the same relative order in both.
KeepsOrder(before, after) ==
    \A x, y \in SnapshotIds(before) \cap SnapshotIds(after) :
        Position(before, x) < Position(before, y) =>
            Position(after, x) < Position(after, y)

\* The toggle calls the platform can pick up: those of the popup that wait,
\* and those of the other clients on any id ever assigned.
Toggles ==
    {k \in InFlight : k.op = "toggle"}
      \cup {ToggleCall(Other, id) : id \in 1..(nextId - 1)}

\* C1: a submit of a buffer whose trimmed value is non-empty issues exactly
\* one add call, carrying the trimmed buffer, and changes no record; running
\* that call creates exactly one new record, with the call's text and
\* isCompleted false, and changes no other record.
C1_SubmitAddsOneTodo ==
    [][ /\ \A c \in Clients :
             (HandleSubmit(c) /\ ~IsBlank(input[c])) =>
                 /\ \E t \in Substrings(input[c]) :
                        /\ IsTrimOf(t, input[c])
                        /\ t # <<>>
                        /\ calls' = calls (+) SetToBag({AddCall(c, t)})
                 /\ BagCardinality(calls') = BagCardinality(calls) + 1
                 /\ db' = db
        /\ \A call \in InFlight :
             ExecAdd(call) =>
                 /\ Cardinality(db' \ db) = 1
                 /\ db \subseteq db'
                 /\ \A r \in db' \ db :
                        /\ r.text = call.text
                        /\ r.isCompleted = FALSE
                        /\ r.id \notin Ids(db)
                 /\ BagCardinality(calls') = BagCardinality(calls) - 1
      ]_vars

\* C1 witness: a text was submitted and its call has run: the table holds one
\* record, not completed, whose text is the trimmed buffer.
C1_Witness ==
    /\ Cardinality(db) = 1
    /\ \E r \in db : r.text = <<"a">> /\ ~r.isCompleted
    /\ calls = EmptyBag

\* C2: a submit of an empty or white-space-only buffer issues no call and
\* creates no record.
C2_BlankSubmitIsIgnored ==
    [][ \A c \in Clients :
            (HandleSubmit(c) /\ IsBlank(input[c])) =>
                (db' = db /\ calls' = calls /\ nextId' = nextId)
      ]_vars

\* C2 witness: a white-space-only buffer was submitted and ignored.
C2_Witness ==
    \E c \in Clients :
        /\ last = Step("submit-ignored", c, 0, NoError)
        /\ input[c] # <<>> /\ IsBlank(input[c])

C4_RemainingCount ==
    \A c \in Clients :
        /\ Remaining(c) =
               Cardinality({i \in DOMAIN todos[c].value : ~todos[c].value[i].isCompleted})
        /\ (~delivered[c] \/ todos[c].value = <<>>) => Remaining(c) = 0

\* C4 witness: a snapshot of two records, one of them completed.
C4_Witness ==
    \E c \in Clients : Len(todos[c].value) = 2 /\ Remaining(c) = 1

\* C5 as stated: once a client has invoked remove on an existing record,
\* the next snapshot delivered to it omits the record, however the call
\* interleaves with the deliveries and the other clients' mutations.
C5_Original ==
    [][ \A c \in Clients :
            (todos'[c] # todos[c] /\ Deliver(c)) =>
                \A id \in asked[c] : id \notin SnapshotIds(todos'[c])
      ]_vars

\* C5 amended: once the platform has executed a remove of a record, every
\* list result it computes from then on omits the record; results reach the
\* client in the order computed, so a snapshot delivered to the client that
\* was computed after the remove ran omits the record, and the remaining
\* counter computed from it does not count it.
C5_RemovedStaysAbsent ==
    /\ [](\A c \in Clients : \A k \in DOMAIN inbox[c] :
              SnapshotIds(inbox[c][k]) \cap inbox[c][k].asOf = {})
    /\ [][ \A c \in Clients :
               /\ Len(inbox'[c]) > Len(inbox[c]) =>
                      /\ inbox'[c][Len(inbox'[c])].asOf = removed
                      /\ \A id \in removed :
                             id \notin SnapshotIds(inbox'[c][Len(inbox'[c])])
               /\ todos'[c] # todos[c] =>
                      /\ todos'[c].value = Head(inbox[c]).value
                      /\ \A id \in Head(inbox[c]).asOf : id \notin SnapshotIds(todos'[c])
                      /\ Remaining(c)' =
                             Cardinality({i \in DOMAIN Head(inbox[c]).value :
                                 /\ Head(inbox[c]).value[i].id \notin Head(inbox[c]).asOf
                                 /\ ~Head(inbox[c]).value[i].isCompleted})
         ]_vars

\* C5 witness: the client's snapshot shows the second record and not the
\* first, which a remove has deleted: the first record was in the table
\* when the second was added, so this snapshot was computed after the
\* remove ran.
C5_Witness ==
    \E c \in Clients :
        /\ 1 \in removed
        /\ SnapshotIds(todos[c]) = {2}
        /\ Remaining(c) = 1

\* C6: every snapshot is ordered newest-created first, the rows are rendered
\* in the snapshot's order, and the records two successive snapshots share
\* keep their relative order: the snapshot shown and the results on their
\* way, each against the next, and the snapshot shown against the one that
\* replaces it.
C6_NewestFirst ==
    /\ [](\A c \in Clients :
              /\ \A i, j \in DOMAIN todos[c].value :
                     i < j => todos[c].value[i].creationTime > todos[c].value[j].creationTime
              /\ DOMAIN Rendered(c) = DOMAIN todos[c].value
              /\ \A i \in DOMAIN todos[c].value :
                     /\ Rendered(c)[i].key = todos[c].value[i].id
                     /\ Rendered(c)[i].text = todos[c].value[i].text
                     /\ Rendered(c)[i].checked = todos[c].value[i].isCompleted
              /\ inbox[c] # <<>> => KeepsOrder(todos[c], Head(inbox[c]))
              /\ \A k \in 1..(Len(inbox[c]) - 1) :
                     KeepsOrder(inbox[c][k], inbox[c][k + 1]))
    /\ [][ \A c \in Clients :
               todos'[c] # todos[c] =>
                   /\ KeepsOrder(todos[c], todos'[c])
                   /\ \A i \in DOMAIN Rendered(c)' :
                          Rendered(c)'[i].key = Head(inbox[c]).value[i].id
         ]_vars

\* C6 witness: the popup shows three records, newest first, a remove of
\* the middle one has run, and the result computed after it, the two
\* records left in the same order, is on its way.
C6_Witness ==
    \E c \in Clients :
        /\ Len(todos[c].value) = 3
        /\ inbox[c] # <<>>
        /\ Head(inbox[c]).asOf = {todos[c].value[2].id}
        /\ Len(Head(inbox[c]).value) = 2
        /\ Head(inbox[c]).value[1].id = todos[c].value[1].id
        /\ Head(inbox[c]).value[2].id = todos[c].value[3].id

\* C7: a toggle of an id that matches no record throws "Todo not found" and
\* leaves the table as it was: the handler ends at the throw, before its
\* write, and the caller's call is rejected with that error.
C7_ToggleMissingFails ==
    [][ \A call \in Toggles :
            (call.id \notin Ids(db) /\ StartToggle(call)) =>
                /\ db' = db
                /\ running' = running
                /\ last' = Step("toggle", call.client, call.id, NotFound)
      ]_vars

\* C7 witness: a client's toggle of a record of its stale view failed,
\* because another client had removed the record.
C7_Witness ==
    /\ last = Step("toggle", last.client, last.id, NotFound)
    /\ last.id \in removed
    /\ last.id \notin Ids(db)

\* C10: the view is Loading exactly until the first delivery, then Empty or
\* Populated as the snapshot has no or some records; it never goes back to
\* Loading; the footer is shown exactly when the view is Populated.
C10_ViewStates ==
    /\ [](\A c \in Clients :
              /\ View(c) \in {"Loading", "Empty", "Populated"}
              /\ View(c) = "Loading" <=> ~delivered[c]
              /\ View(c) = "Empty" <=> (delivered[c] /\ Len(todos[c].value) = 0)
              /\ View(c) = "Populated" <=> (delivered[c] /\ Len(todos[c].value) >= 1)
              /\ FooterShown(c) <=> View(c) = "Populated")
    /\ [][ \A c \in Clients : View(c) # "Loading" => View(c)' # "Loading" ]_vars

\* C10 witness: a delivery has taken the view from Loading to Populated, and
\* the footer is shown.
C10_Witness ==
    \E c \in Clients :
        /\ delivered[c]
        /\ View(c) = "Populated"
        /\ FooterShown(c)

=============================================================================
